---- MODULE Spec2Model ----
(***************************************************************************)
(* Model of cloud_functions/etf_data_ingest/main.py: the Alpha Vantage ETF *)
(* ingestion (AlphaVantageETFIngest) and its two Cloud Function entry      *)
(* points, etf_data_ingest (HTTP) and etf_data_ingest_scheduled (cloud     *)
(* event).  One behaviour is one invocation of one entry point in a fresh  *)
(* process; the upstream API, the object store and the wall clock are the  *)
(* environment and answer nondeterministically.  Spec is the HTTP entry    *)
(* point, SpecBatch the scheduled one and SpecBoth either of them; in all   *)
(* of them the wall clock may advance at every read, up to MaxTicks seconds *)
(* in one run.                                                             *)
(***************************************************************************)
EXTENDS Integers, Sequences, FiniteSets, TLC

\* ------------------------------------------------------------------ bounds
MaxSymbols == 2          \* longest symbol list of a scheduled event
MaxTicks == 1            \* seconds the wall clock may advance during one run

\* --------------------------------------------------------------- constants
SecondsPerDay == 86400   \* %Y%m%d changes every 86400 values of %H%M%S
StartClock == SecondsPerDay - 1   \* the run starts one second to midnight

Symbols == {"QQQ", "SPY"}
None == "None"           \* Python's None / an absent key

\* values an environment variable may have: unset, empty, set
EnvValues == {None, "", "set"}

\* Python truthiness of a string-or-None value, as tested by `not x`
Truthy(v) == v # None /\ v # ""

\* -------------------------------------------------------------- upstream
\* A response of requests.get: the transport fails (connection error,
\* timeout, non-2xx raised by raise_for_status), the body is not JSON, or the
\* body is a JSON object, given by the set of its keys.
BodyKeys == {"Error Message", "Note", "net_assets"}
Bodies == {b \in SUBSET BodyKeys : "net_assets" \in b <=> "Error Message" \notin b}
Responses ==
    {[kind |-> "transport", body |-> {}], [kind |-> "unparsable", body |-> {}]}
    \cup {[kind |-> "json", body |-> b] : b \in Bodies}

\* get_etf_profile without the check of 'Error Message': any JSON body is data
get_etf_profile_unchecked(resp) ==
    IF resp.kind = "transport"
    THEN [exc |-> "RequestException", data |-> {}, warned |-> FALSE]
    ELSE IF resp.kind = "unparsable"
    THEN [exc |-> "JSONDecodeError", data |-> {}, warned |-> FALSE]
    ELSE [exc |-> None, data |-> resp.body, warned |-> "Note" \in resp.body]

\* get_etf_profile after requests.get answered resp: the exception raised
\* (exc # None) or the data returned, and whether the Note warning was logged
get_etf_profile(resp) ==
    IF resp.kind = "transport"
    THEN [exc |-> "RequestException", data |-> {}, warned |-> FALSE]
    ELSE IF resp.kind = "unparsable"
    THEN [exc |-> "JSONDecodeError", data |-> {}, warned |-> FALSE]
    ELSE IF "Error Message" \in resp.body
    THEN [exc |-> "ValueError", data |-> {}, warned |-> FALSE]
    ELSE [exc |-> None, data |-> resp.body, warned |-> "Note" \in resp.body]

\* get_etf_holdings with the advisory 'Note' taken for an error as well
get_etf_holdings_note_fails(resp) ==
    IF resp.kind = "transport"
    THEN [exc |-> "RequestException", data |-> {}, warned |-> FALSE]
    ELSE IF resp.kind = "unparsable"
    THEN [exc |-> "JSONDecodeError", data |-> {}, warned |-> FALSE]
    ELSE IF "Error Message" \in resp.body \/ "Note" \in resp.body
    THEN [exc |-> "ValueError", data |-> {}, warned |-> FALSE]
    ELSE [exc |-> None, data |-> resp.body, warned |-> FALSE]

\* get_etf_holdings: the same classification for the ETF_HOLDINGS query
get_etf_holdings(resp) ==
    IF resp.kind = "transport"
    THEN [exc |-> "RequestException", data |-> {}, warned |-> FALSE]
    ELSE IF resp.kind = "unparsable"
    THEN [exc |-> "JSONDecodeError", data |-> {}, warned |-> FALSE]
    ELSE IF "Error Message" \in resp.body
    THEN [exc |-> "ValueError", data |-> {}, warned |-> FALSE]
    ELSE [exc |-> None, data |-> resp.body, warned |-> "Note" \in resp.body]

\* --------------------------------------------------------------- storage
\* datetime.now().strftime("%Y%m%d_%H%M%S") at clock value t
strftime_timestamp(t) == [date |-> t \div SecondsPerDay, time |-> t % SecondsPerDay]
\* datetime.now().strftime("%Y/%m/%d") at clock value t
strftime_date_path(t) == t \div SecondsPerDay

\* an object name whose file name carries no timestamp of its own
blob_name_no_timestamp(symbol, data_type, t1, t2) ==
    [category |-> "etf_data", data_type |-> data_type, symbol |-> symbol,
     date_path |-> strftime_date_path(t2),
     file |-> [symbol |-> symbol, data_type |-> data_type,
               timestamp |-> strftime_timestamp(0)]]

\* the object name built by store_to_gcs from its two clock reads t1, t2
blob_name(symbol, data_type, t1, t2) ==
    [category |-> "etf_data", data_type |-> data_type, symbol |-> symbol,
     date_path |-> strftime_date_path(t2),
     file |-> [symbol |-> symbol, data_type |-> data_type,
               timestamp |-> strftime_timestamp(t1)]]

\* the metadata store_to_gcs attaches to the blob
blob_metadata(symbol, data_type, t1) ==
    [symbol |-> symbol, data_type |-> data_type,
     ingestion_timestamp |-> strftime_timestamp(t1), source |-> "alphavantage"]

\* the location store_to_gcs returns: gs://<bucket_name>/<blob_name>
gcs_path(bucket_name, blob) == [bucket |-> bucket_name, blob |-> blob]

\* upload_from_string: the object replaces whatever the key held before
upload(objs, blob, data, meta) ==
    {o \in objs : o.blob # blob} \cup {[blob |-> blob, data |-> data, metadata |-> meta]}

VARIABLES
    env,        \* os.environ: ALPHA_VANTAGE_API_KEY and GCS_BUCKET_NAME
    pc,         \* position of the running handler
    entry,      \* which entry point was invoked: "none", "http", "scheduled"
    symbols,    \* the symbol list the handler iterates (one entry for http)
    include_holdings, \* the include_holdings argument of ingest_etf_data
    idx,        \* 1-based position of the for loop in symbols
    result,     \* the result dict of the running ingest_etf_data call
    data,       \* the payload fetched last: profile_data / holdings_data
    results,    \* the results list of etf_data_ingest_scheduled
    outcome,    \* how the handler ended: return value / status code / raise
    clock,      \* the value datetime.now() returned last, in seconds
    bucket,     \* the objects of the GCS bucket
    calls,      \* history: the upstream requests and storage writes made
    input       \* history: the request or event the handler was invoked with

vars == <<env, pc, entry, symbols, include_holdings, idx, result, data,
          results, outcome, clock, bucket, calls, input>>

MaxClock == StartClock + MaxTicks
\* what datetime.now() may return next: the wall clock does not go back
Now == clock..MaxClock

\* ------------------------------------------------------------------ inputs
\* the symbol lists of a scheduled event, duplicates allowed
SymbolLists == UNION {[1..n -> Symbols] : n \in 0..MaxSymbols}

\* the include_holdings field of a request or event: absent, true or false
IncludeValues == {None, "true", "false"}

\* d.get('include_holdings', True), then tested with `if include_holdings:`
get_include_holdings(v) == IF v = None THEN TRUE ELSE v = "true"

\* cloud_event.data: None, or a dict with or without the key 'symbols'
Events ==
    [has_data : BOOLEAN, has_symbols : BOOLEAN, symbols : SymbolLists,
     include_holdings : IncludeValues]

\* data.get('symbols', [])
get_symbols(ev) == IF ev.has_symbols THEN ev.symbols ELSE <<>>

\* an HTTP request: its method and what get_json(silent=True) gives: None
\* (json = "none": no body or not JSON), a dict with the given fields
\* (json = "object"), or a non-empty JSON array such as ["QQQ"] (json = "array")
JsonKinds == {"none", "object", "array"}
Requests ==
    [method : {"POST", "GET"}, json : JsonKinds, symbol : {None, ""} \cup Symbols,
     include_holdings : IncludeValues]

\* `not request_json`: None and the empty dict are both falsy
request_json_falsy(req) ==
    \/ req.json = "none"
    \/ req.json = "object" /\ req.symbol = None /\ req.include_holdings = None

\* request_json.get('symbol'): a list has no get, the AttributeError is raised
request_get_raises(req) == req.json = "array"

\* ------------------------------------------------------------ constructor
\* a constructor that checks the API key and not the bucket name
init_error_key_only(e) ==
    IF ~Truthy(e.ALPHA_VANTAGE_API_KEY) THEN "ValueError: ALPHA_VANTAGE_API_KEY"
    ELSE None

\* a constructor that tests `is None` and so takes an empty value as set
init_error_unset_only(e) ==
    IF e.ALPHA_VANTAGE_API_KEY = None THEN "ValueError: ALPHA_VANTAGE_API_KEY"
    ELSE IF e.GCS_BUCKET_NAME = None THEN "ValueError: GCS_BUCKET_NAME"
    ELSE None

\* AlphaVantageETFIngest.__init__: the ValueError it raises, or None
init_error(e) ==
    IF ~Truthy(e.ALPHA_VANTAGE_API_KEY) THEN "ValueError: ALPHA_VANTAGE_API_KEY"
    ELSE IF ~Truthy(e.GCS_BUCKET_NAME) THEN "ValueError: GCS_BUCKET_NAME"
    ELSE None

\* ----------------------------------------------------------------- ingest
NoResult ==
    [symbol |-> None, timestamp |-> 0, files_created |-> <<>>,
     status |-> "unset", error_message |-> None]

Pending == [kind |-> "pending", code |-> 0, value |-> None, error |-> None]

\* the dict ingest_etf_data starts from (no 'status' key yet)
new_result(symbol, now) ==
    [symbol |-> symbol, timestamp |-> now, files_created |-> <<>>,
     status |-> "unset", error_message |-> None]

\* an except clause that also rolls files_created back
ingest_except_rollback(res, exc) ==
    [res EXCEPT !.status = "error", !.error_message = exc, !.files_created = <<>>]

\* an except clause that records the message and forgets the status
ingest_except_no_status(res, exc) == [res EXCEPT !.error_message = exc]

\* an except clause that sets the status and forgets the message
ingest_except_no_message(res, exc) == [res EXCEPT !.status = "error"]

\* the except clause of ingest_etf_data
ingest_except(res, exc) == [res EXCEPT !.status = "error", !.error_message = exc]

\* result['files_created'].append(path)
append_file(res, path) == [res EXCEPT !.files_created = Append(@, path)]

\* result['status'] = 'success'
ingest_success(res) == [res EXCEPT !.status = "success"]

\* the holdings branch taken whatever include_holdings is
profile_stored_always_holdings(res, inc, path) ==
    [result |-> append_file(res, path), pc |-> "get_holdings"]

\* the holdings write made right after the profile write, without its fetch
profile_stored_skips_fetch(res, inc, path) ==
    IF inc
    THEN [result |-> append_file(res, path), pc |-> "store_holdings"]
    ELSE [result |-> ingest_success(append_file(res, path)), pc |-> "ingest_return"]

\* ingest_etf_data after store_to_gcs returned the profile path: the append,
\* then `if include_holdings:` leads to the holdings fetch or to success
profile_stored(res, inc, path) ==
    IF inc
    THEN [result |-> append_file(res, path), pc |-> "get_holdings"]
    ELSE [result |-> ingest_success(append_file(res, path)), pc |-> "ingest_return"]

\* the holdings path not appended to files_created
holdings_stored_no_append(res, path) ==
    [result |-> ingest_success(res), pc |-> "ingest_return"]

\* ingest_etf_data after store_to_gcs returned the holdings path
holdings_stored(res, path) ==
    [result |-> ingest_success(append_file(res, path)), pc |-> "ingest_return"]

\* ------------------------------------------------------------------ batch
\* an append that leaves failed outcomes out
results_append_drops_failed(rs, res) ==
    IF res.status = "error" THEN rs ELSE Append(rs, res)

\* an append that keeps one outcome per distinct symbol
results_append_dedup(rs, res) ==
    IF \E j \in DOMAIN rs : rs[j].symbol = res.symbol THEN rs ELSE Append(rs, res)

\* results.append(result)
results_append(rs, res) == Append(rs, res)

\* a loop that stops at the first failed symbol
loop_continues_until_failure(i, syms, res) == i < Len(syms) /\ res.status # "error"

\* `for symbol in symbols:` has a next entry after the i-th
loop_continues(i, syms, res) == i < Len(syms)

\* ---------------------------------------------------------------- history
NoResponse == [kind |-> "none", body |-> {}]
NoBlob == blob_name(None, None, 0, 0)

\* one entry of the history: the i-th ingest called op; for a fetch, the
\* upstream's response, for a write, the object name; reads = the values
\* datetime.now() returned during the call, in order; ok = it did not raise
Call(op, resp, blob, reads, ok) ==
    [idx |-> idx, symbol |-> symbols[idx], op |-> op, resp |-> resp,
     blob |-> blob, reads |-> reads, ok |-> ok]

NoInput == [kind |-> "none"]

\* a fresh process one second to midnight, before the handler is invoked
Init ==
    /\ env \in [ALPHA_VANTAGE_API_KEY : EnvValues, GCS_BUCKET_NAME : EnvValues]
    /\ pc = "idle"
    /\ entry = "none"
    /\ symbols = <<>>
    /\ include_holdings = TRUE
    /\ idx = 0
    /\ result = NoResult
    /\ data = {}
    /\ results = <<>>
    /\ outcome = Pending
    /\ clock = StartClock
    /\ bucket = {}
    /\ calls = <<>>
    /\ input = NoInput

\* etf_data_ingest up to the call of ingest_etf_data: method and body checks,
\* then the constructor; any exception reaches the except clause, which reads
\* the wall clock once more to stamp the 500 error body
HttpRequest ==
    /\ pc = "idle"
    /\ \E req \in Requests :
        /\ entry' = "http"
        /\ input' = req
        /\ IF req.method # "POST"
           THEN /\ outcome' = [kind |-> "return", code |-> 405, value |-> "error",
                               error |-> "method"]
                /\ pc' = "done"
                /\ UNCHANGED <<symbols, include_holdings, idx, clock>>
           ELSE IF request_json_falsy(req)
           THEN /\ outcome' = [kind |-> "return", code |-> 400, value |-> "error",
                               error |-> "json"]
                /\ pc' = "done"
                /\ UNCHANGED <<symbols, include_holdings, idx, clock>>
           ELSE IF request_get_raises(req)
           THEN /\ outcome' = [kind |-> "return", code |-> 500, value |-> "exception",
                               error |-> "AttributeError"]
                /\ \E now \in Now : clock' = now
                /\ pc' = "done"
                /\ UNCHANGED <<symbols, include_holdings, idx>>
           ELSE IF ~Truthy(req.symbol)
           THEN /\ outcome' = [kind |-> "return", code |-> 400, value |-> "error",
                               error |-> "symbol"]
                /\ pc' = "done"
                /\ UNCHANGED <<symbols, include_holdings, idx, clock>>
           ELSE IF init_error(env) # None
           THEN /\ outcome' = [kind |-> "return", code |-> 500, value |-> "exception",
                               error |-> init_error(env)]
                /\ \E now \in Now : clock' = now
                /\ symbols' = <<req.symbol>>
                /\ include_holdings' = get_include_holdings(req.include_holdings)
                /\ pc' = "done"
                /\ UNCHANGED idx
           ELSE /\ symbols' = <<req.symbol>>
                /\ include_holdings' = get_include_holdings(req.include_holdings)
                /\ idx' = 1
                /\ pc' = "ingest_start"
                /\ UNCHANGED <<outcome, clock>>
    /\ UNCHANGED <<env, result, data, results, bucket, calls>>

\* etf_data_ingest_scheduled up to the for loop: the event's fields, the
\* empty-list return, then the constructor; any exception is re-raised
ScheduledEvent ==
    /\ pc = "idle"
    /\ \E ev \in Events :
        /\ entry' = "scheduled"
        /\ input' = ev
        /\ IF ~ev.has_data
           THEN /\ outcome' = [kind |-> "raise", code |-> 0, value |-> None,
                               error |-> "AttributeError"]
                /\ pc' = "done"
                /\ UNCHANGED <<symbols, include_holdings, idx>>
           ELSE /\ symbols' = get_symbols(ev)
                /\ include_holdings' = get_include_holdings(ev.include_holdings)
                /\ IF get_symbols(ev) = <<>>
                   THEN /\ outcome' = [kind |-> "return", code |-> 0, value |-> None,
                                       error |-> None]
                        /\ pc' = "done"
                        /\ UNCHANGED idx
                   ELSE IF init_error(env) # None
                   THEN /\ outcome' = [kind |-> "raise", code |-> 0, value |-> None,
                                       error |-> init_error(env)]
                        /\ pc' = "done"
                        /\ UNCHANGED idx
                   ELSE /\ idx' = 1
                        /\ pc' = "ingest_start"
                        /\ UNCHANGED outcome
    /\ UNCHANGED <<env, result, data, results, clock, bucket, calls>>

\* ingest_etf_data, entered for symbols[idx]: the fresh result dict
IngestStart ==
    /\ pc = "ingest_start"
    /\ \E now \in Now :
        /\ clock' = now
        /\ result' = new_result(symbols[idx], now)
        /\ calls' = Append(calls, Call("ingest_etf_data", NoResponse, NoBlob, <<now>>, TRUE))
    /\ data' = {}
    /\ pc' = "get_profile"
    /\ UNCHANGED <<env, input, entry, symbols, include_holdings, idx, results, outcome,
                   bucket>>

\* profile_data = self.get_etf_profile(symbol)
GetProfile ==
    /\ pc = "get_profile"
    /\ \E resp \in Responses :
        LET r == get_etf_profile(resp) IN
        /\ calls' = Append(calls, Call("get_etf_profile", resp, NoBlob, <<>>, r.exc = None))
        /\ IF r.exc # None
           THEN /\ result' = ingest_except(result, r.exc)
                /\ pc' = "ingest_return"
                /\ UNCHANGED data
           ELSE /\ data' = r.data
                /\ pc' = "store_profile"
                /\ UNCHANGED result
    /\ UNCHANGED <<env, input, entry, symbols, include_holdings, idx, results, outcome,
                   clock, bucket>>

\* StoreProfile with a store_to_gcs that logs a failed upload and returns the
\* path all the same
StoreProfileSwallow ==
    /\ pc = "store_profile"
    /\ \E ok \in BOOLEAN, t1 \in Now, t2 \in Now :
        LET sym == symbols[idx]
            blob == blob_name(sym, "profile", t1, t2)
            nxt == profile_stored(result, include_holdings,
                                  gcs_path(env.GCS_BUCKET_NAME, blob)) IN
        /\ t1 <= t2
        /\ clock' = t2
        /\ calls' = Append(calls, Call("store_profile", NoResponse, blob, <<t1, t2>>, ok))
        /\ bucket' = IF ok THEN upload(bucket, blob, data,
                                       blob_metadata(sym, "profile", t1))
                     ELSE bucket
        /\ result' = nxt.result
        /\ pc' = nxt.pc
    /\ UNCHANGED <<env, input, entry, symbols, include_holdings, idx, data,
                   results, outcome>>

\* profile_path = self.store_to_gcs(profile_data, symbol, 'profile') and what
\* follows it up to the next call
StoreProfile ==
    /\ pc = "store_profile"
    /\ \E ok \in BOOLEAN, t1 \in Now, t2 \in Now :
        LET sym == symbols[idx]
            blob == blob_name(sym, "profile", t1, t2)
            nxt == profile_stored(result, include_holdings,
                                  gcs_path(env.GCS_BUCKET_NAME, blob)) IN
        /\ t1 <= t2
        /\ clock' = t2
        /\ calls' = Append(calls, Call("store_profile", NoResponse, blob, <<t1, t2>>, ok))
        /\ IF ok
           THEN /\ bucket' = upload(bucket, blob, data,
                                    blob_metadata(sym, "profile", t1))
                /\ result' = nxt.result
                /\ pc' = nxt.pc
           ELSE /\ result' = ingest_except(result, "StorageError")
                /\ pc' = "ingest_return"
                /\ UNCHANGED bucket
    /\ UNCHANGED <<env, input, entry, symbols, include_holdings, idx, data,
                   results, outcome>>

\* holdings_data = self.get_etf_holdings(symbol)
GetHoldings ==
    /\ pc = "get_holdings"
    /\ \E resp \in Responses :
        LET r == get_etf_holdings(resp) IN
        /\ calls' = Append(calls, Call("get_etf_holdings", resp, NoBlob, <<>>, r.exc = None))
        /\ IF r.exc # None
           THEN /\ result' = ingest_except(result, r.exc)
                /\ pc' = "ingest_return"
                /\ UNCHANGED data
           ELSE /\ data' = r.data
                /\ pc' = "store_holdings"
                /\ UNCHANGED result
    /\ UNCHANGED <<env, input, entry, symbols, include_holdings, idx, results, outcome,
                   clock, bucket>>

\* holdings_path = self.store_to_gcs(holdings_data, symbol, 'holdings'), the
\* append to files_created and result['status'] = 'success'
StoreHoldings ==
    /\ pc = "store_holdings"
    /\ \E ok \in BOOLEAN, t1 \in Now, t2 \in Now :
        LET sym == symbols[idx]
            blob == blob_name(sym, "holdings", t1, t2)
            nxt == holdings_stored(result, gcs_path(env.GCS_BUCKET_NAME, blob)) IN
        /\ t1 <= t2
        /\ clock' = t2
        /\ calls' = Append(calls, Call("store_holdings", NoResponse, blob, <<t1, t2>>, ok))
        /\ IF ok
           THEN /\ bucket' = upload(bucket, blob, data,
                                    blob_metadata(sym, "holdings", t1))
                /\ result' = nxt.result
                /\ pc' = nxt.pc
           ELSE /\ result' = ingest_except(result, "StorageError")
                /\ pc' = "ingest_return"
                /\ UNCHANGED bucket
    /\ UNCHANGED <<env, input, entry, symbols, include_holdings, idx, data,
                   results, outcome>>

\* HttpReturn with the status code left at 200 whatever the result's status
HttpReturnAlways200 ==
    /\ pc = "ingest_return"
    /\ entry = "http"
    /\ outcome' = [kind |-> "return", code |-> 200, value |-> "result", error |-> None]
    /\ pc' = "done"
    /\ UNCHANGED <<env, input, entry, symbols, include_holdings, idx, result,
                   data, results, clock, bucket, calls>>

\* etf_data_ingest: return result, 200 if result['status'] == 'success' else 500
HttpReturn ==
    /\ pc = "ingest_return"
    /\ entry = "http"
    /\ outcome' = [kind |-> "return",
                   code |-> IF result.status = "success" THEN 200 ELSE 500,
                   value |-> "result", error |-> None]
    /\ pc' = "done"
    /\ UNCHANGED <<env, input, entry, symbols, include_holdings, idx, result, data,
                   results, clock, bucket, calls>>

\* etf_data_ingest_scheduled: results.append(result) and the next iteration
LoopAppend ==
    /\ pc = "ingest_return"
    /\ entry = "scheduled"
    /\ results' = results_append(results, result)
    /\ IF loop_continues(idx, symbols, result)
       THEN idx' = idx + 1 /\ pc' = "ingest_start"
       ELSE idx' = idx /\ pc' = "loop_end"
    /\ UNCHANGED <<env, input, entry, symbols, include_holdings, result, data,
                   outcome, clock, bucket, calls>>

\* etf_data_ingest_scheduled: return results
ScheduledReturn ==
    /\ pc = "loop_end"
    /\ outcome' = [kind |-> "return", code |-> 0, value |-> "results", error |-> None]
    /\ pc' = "done"
    /\ UNCHANGED <<env, input, entry, symbols, include_holdings, idx, result, data,
                   results, clock, bucket, calls>>

\* one invocation of etf_data_ingest
Next ==
    \/ HttpRequest
    \/ IngestStart
    \/ GetProfile
    \/ StoreProfile
    \/ GetHoldings
    \/ StoreHoldings
    \/ HttpReturn

Spec == Init /\ [][Next]_vars

\* every call of the handler returns or raises: requests.get has a timeout,
\* the upload ends, and the handler has no loop of its own
SpecLive == Spec /\ WF_vars(Next)

\* one invocation of etf_data_ingest_scheduled
NextBatch ==
    \/ ScheduledEvent
    \/ IngestStart
    \/ GetProfile
    \/ StoreProfile
    \/ GetHoldings
    \/ StoreHoldings
    \/ LoopAppend
    \/ ScheduledReturn

SpecBatch == Init /\ [][NextBatch]_vars

\* one invocation of either entry point
NextBoth ==
    \/ HttpRequest
    \/ ScheduledEvent
    \/ IngestStart
    \/ GetProfile
    \/ StoreProfile
    \/ GetHoldings
    \/ StoreHoldings
    \/ HttpReturn
    \/ LoopAppend
    \/ ScheduledReturn

SpecBoth == Init /\ [][NextBoth]_vars

TypeOK ==
    /\ pc \in {"idle", "ingest_start", "get_profile", "store_profile", "get_holdings",
               "store_holdings", "ingest_return", "loop_end", "done"}
    /\ entry \in {"none", "http", "scheduled"}
    /\ clock \in StartClock..MaxClock
    /\ Len(results) <= Len(symbols)

\* ------------------------------------------------------- reading the run
Fetches == {"get_etf_profile", "get_etf_holdings"}
Writes == {"store_profile", "store_holdings"}

\* the positions in the history of the calls of the i-th ingest with op in ops
CallsOf(i, ops) == {k \in DOMAIN calls : calls[k].idx = i /\ calls[k].op \in ops}

Made(i, op) == CallsOf(i, {op}) # {}
Succeeded(i, op) == \E k \in CallsOf(i, {op}) : calls[k].ok
Failed(i, op) == \E k \in CallsOf(i, {op}) : ~calls[k].ok

\* the upstream made the fetch fail: no answer, no JSON, or an error message
UpstreamFailed(resp) ==
    \/ resp.kind \in {"transport", "unparsable"}
    \/ resp.kind = "json" /\ "Error Message" \in resp.body

\* the i-th ingest_etf_data call has returned, with Returned(i) as its result
HasReturned(i) ==
    /\ i \in 1..Len(symbols)
    /\ \/ i < idx
       \/ i = idx /\ pc \in {"ingest_return", "loop_end", "done"}
Returned(i) == IF i <= Len(results) THEN results[i] ELSE result

Ingests == 1..Len(symbols)

\* C1: when the upstream fails the profile fetch (error-message body, transport
\* failure or unparsable body) the ingest makes no storage write, and its
\* outcome has status 'error' with no file created.
C1_ProfileFetchFailure ==
    \A i \in Ingests :
        (\E k \in CallsOf(i, {"get_etf_profile"}) : UpstreamFailed(calls[k].resp))
        => /\ CallsOf(i, Writes) = {}
           /\ HasReturned(i) =>
                /\ Returned(i).status = "error"
                /\ Returned(i).files_created = <<>>

C1_Witness ==
    \E i \in Ingests :
        /\ HasReturned(i)
        /\ include_holdings
        /\ \E k \in CallsOf(i, {"get_etf_profile"}) :
              calls[k].resp.kind = "json" /\ "Error Message" \in calls[k].resp.body

\* C2: when the profile fetch succeeds and the profile write fails, the outcome
\* has status 'error' with no file created, and neither the holdings fetch nor
\* the holdings write is made, also with include_holdings true.
C2_ProfileWriteFailure ==
    \A i \in Ingests :
        (Succeeded(i, "get_etf_profile") /\ Failed(i, "store_profile"))
        => /\ CallsOf(i, {"get_etf_holdings", "store_holdings"}) = {}
           /\ \A k \in CallsOf(i, Fetches \cup Writes) :
                 ~calls[k].ok => \A l \in CallsOf(i, Fetches \cup Writes) : l <= k
           /\ HasReturned(i) =>
                /\ Returned(i).status = "error"
                /\ Returned(i).files_created = <<>>

C2_Witness ==
    \E i \in Ingests :
        /\ HasReturned(i)
        /\ include_holdings
        /\ Succeeded(i, "get_etf_profile")
        /\ Failed(i, "store_profile")

\* the location store_to_gcs returned for the successful write at position k
Location(k) == gcs_path(env.GCS_BUCKET_NAME, calls[k].blob)

\* C3: when profile fetch and write succeed, include_holdings is true and the
\* holdings fetch or write fails, the outcome has status 'error' and
\* files_created is exactly the location of the written profile, whose object
\* is still in the bucket.
C3_HoldingsFailureKeepsProfile ==
    \A i \in Ingests :
        ( /\ HasReturned(i)
          /\ include_holdings
          /\ Succeeded(i, "get_etf_profile")
          /\ Succeeded(i, "store_profile")
          /\ Failed(i, "get_etf_holdings") \/ Failed(i, "store_holdings") )
        => /\ Returned(i).status = "error"
           /\ \E k \in CallsOf(i, {"store_profile"}) :
                 /\ Returned(i).files_created = <<Location(k)>>
                 /\ calls[k].blob.data_type = "profile"
                 /\ calls[k].blob.symbol = symbols[i]
                 /\ \E o \in bucket : o.blob = calls[k].blob

C3_Witness ==
    \E i \in Ingests :
        /\ HasReturned(i)
        /\ Succeeded(i, "store_profile")
        /\ Failed(i, "store_holdings")

C3_WitnessFetch ==
    \E i \in Ingests :
        /\ HasReturned(i)
        /\ Succeeded(i, "store_profile")
        /\ Failed(i, "get_etf_holdings")

\* C4: with include_holdings false an ingest never issues the holdings query
\* and, once returned, has issued exactly one upstream request, the profile
\* query; when that fetch and its write succeeded it made exactly one write and
\* returns status 'success' with exactly one location.
C4_ProfileOnly ==
    ~include_holdings =>
        \A i \in Ingests :
            /\ CallsOf(i, {"get_etf_holdings"}) = {}
            /\ Cardinality(CallsOf(i, Fetches)) <= 1
            /\ HasReturned(i) =>
                /\ Cardinality(CallsOf(i, {"get_etf_profile"})) = 1
                /\ (Succeeded(i, "get_etf_profile") /\ Succeeded(i, "store_profile")) =>
                      /\ Cardinality(CallsOf(i, Writes)) = 1
                      /\ Returned(i).status = "success"
                      /\ Len(Returned(i).files_created) = 1

C4_Witness ==
    \E i \in Ingests :
        /\ ~include_holdings
        /\ HasReturned(i)
        /\ Succeeded(i, "store_profile")

\* the steps of the i-th ingest, in the order they were made
StepsOf(i) ==
    SelectSeq(calls, LAMBDA c : c.idx = i /\ c.op \in Fetches \cup Writes)

StepOrder == <<"get_etf_profile", "store_profile", "get_etf_holdings", "store_holdings">>

\* C5: with include_holdings true the steps of an ingest are a prefix of
\* get_etf_profile, store_profile, get_etf_holdings, store_holdings: each made
\* at most once, in this order, each only after the one before it succeeded;
\* so at most two writes, and the holdings write only after the profile fetch,
\* the profile write and the holdings fetch all succeeded.
C5_StepOrder ==
    include_holdings =>
        \A i \in Ingests :
            LET st == StepsOf(i) IN
            /\ Len(st) <= 4
            /\ \A j \in 1..Len(st) :
                  /\ st[j].op = StepOrder[j]
                  /\ j > 1 => st[j - 1].ok
            /\ Cardinality(CallsOf(i, Writes)) <= 2
            /\ HasReturned(i) => (Len(st) = 4 \/ ~st[Len(st)].ok)

C5_Witness ==
    \E i \in Ingests :
        /\ include_holdings
        /\ HasReturned(i)
        /\ Succeeded(i, "store_holdings")

RequiredOps ==
    IF include_holdings THEN Fetches \cup Writes ELSE {"get_etf_profile", "store_profile"}

\* C6: a returned outcome has status 'error' exactly when a required fetch or
\* write of that ingest failed, and status 'success' exactly when every
\* required step (profile fetch and write, and with include_holdings the
\* holdings fetch and write) succeeded.
C6_StatusIffFailure ==
    \A i \in Ingests :
        HasReturned(i) =>
            /\ Returned(i).status \in {"success", "error"}
            /\ Returned(i).status = "error" <=> \E op \in RequiredOps : Failed(i, op)
            /\ Returned(i).status = "success" <=> \A op \in RequiredOps : Succeeded(i, op)
            /\ CallsOf(i, (Fetches \cup Writes) \ RequiredOps) = {}

C6_Witness ==
    \E i \in Ingests :
        /\ HasReturned(i)
        /\ include_holdings
        /\ Returned(i).status = "success"

C6_WitnessFailure ==
    \E i \in Ingests :
        /\ HasReturned(i)
        /\ include_holdings
        /\ Succeeded(i, "store_profile")
        /\ Returned(i).status = "error"

\* the scheduled run of a non-empty list has ended (the constructor succeeded)
BatchEnded ==
    /\ entry = "scheduled"
    /\ pc = "done"
    /\ symbols # <<>>
    /\ init_error(env) = None

\* C7: a scheduled run over a non-empty symbol list ends by returning the
\* results list, which has the length of the input list and whose i-th outcome
\* carries the i-th symbol, whatever fetches and writes failed.
C7_BatchLengthAndOrder ==
    BatchEnded =>
        /\ outcome.kind = "return" /\ outcome.value = "results"
        /\ Len(results) = Len(symbols)
        /\ \A i \in 1..Len(symbols) : results[i].symbol = symbols[i]

C7_Witness ==
    /\ BatchEnded
    /\ Len(symbols) = MaxSymbols
    /\ symbols[1] # symbols[MaxSymbols]
    /\ \A i \in 1..Len(results) : results[i].status = "error"

\* the steps of the i-th ingest are over: one failed or all required were made
StepsComplete(i) ==
    LET st == StepsOf(i) IN
    /\ Len(st) >= 1
    /\ ~st[Len(st)].ok \/ Len(st) = Cardinality(RequiredOps)

\* C8: a scheduled run calls ingest_etf_data once per list entry, in list
\* order, also after entries that failed; the calls of one entry are made
\* after its ingest started and are over before the next entry's ingest starts.
C8_SequentialPerEntry ==
    entry = "scheduled" =>
        /\ \A k, l \in DOMAIN calls : k < l => calls[k].idx <= calls[l].idx
        /\ \A i \in Ingests :
              /\ Cardinality(CallsOf(i, {"ingest_etf_data"})) <= 1
              /\ \A k \in CallsOf(i, {"ingest_etf_data"}) :
                    /\ calls[k].symbol = symbols[i]
                    /\ \A l \in CallsOf(i, Fetches \cup Writes) : k < l
                    /\ i > 1 => StepsComplete(i - 1)
              /\ CallsOf(i, Fetches \cup Writes) # {} => Made(i, "ingest_etf_data")
        /\ BatchEnded =>
              \A i \in Ingests : Made(i, "ingest_etf_data") /\ StepsComplete(i)

C8_Witness ==
    /\ BatchEnded
    /\ Len(symbols) >= 2
    /\ Failed(1, "get_etf_profile")
    /\ Succeeded(2, "store_profile")

\* the number of entries of the sequence q that carry the symbol s
Occurrences(q, s) == Cardinality({i \in DOMAIN q : q[i] = s})
ResultSymbols == [i \in DOMAIN results |-> results[i].symbol]

\* C9 as stated: the number of outcomes returned is the number of distinct
\* symbols of the list.
C9_LengthIsDistinctCount ==
    BatchEnded => Len(results) = Cardinality({symbols[i] : i \in DOMAIN symbols})

\* C9, amended: the number of outcomes returned is the number of entries of
\* the list, and each symbol has as many outcomes as it has entries in the
\* list, so no entry is dropped and a repeated symbol is ingested repeatedly.
C9_OneOutcomePerEntry ==
    BatchEnded =>
        /\ Len(results) = Len(symbols)
        /\ \A s \in Symbols : Occurrences(ResultSymbols, s) = Occurrences(symbols, s)

C9_Witness ==
    /\ BatchEnded
    /\ \E i, j \in DOMAIN symbols : i # j /\ symbols[i] = symbols[j]

\* C10 as stated: a scheduled event whose symbol list is empty or absent ends
\* in an error raised to the caller, with no ingest, fetch or write made.
C10_EmptyListIsFatal ==
    (entry = "scheduled" /\ pc = "done" /\ symbols = <<>>) =>
        /\ outcome.kind = "raise"
        /\ calls = <<>>
        /\ bucket = {}

\* what the code does there: nothing is ingested, fetched or written
C10_EmptyListDoesNothing ==
    (entry = "scheduled" /\ pc = "done" /\ symbols = <<>>) =>
        /\ calls = <<>>
        /\ bucket = {}

\* ------------------------------------------------------- the HTTP transport
\* the request is a POST whose body is a JSON object with a non-empty symbol
WellFormed(req) == req.method = "POST" /\ req.json = "object" /\ Truthy(req.symbol)

\* both required settings are present and non-empty
ConfigOk == Truthy(env.ALPHA_VANTAGE_API_KEY) /\ Truthy(env.GCS_BUCKET_NAME)

HttpEnded == entry = "http" /\ pc = "done"

\* C11: a well-formed POST with a non-empty symbol is answered with the
\* outcome of that symbol, with status code 200 exactly when the outcome's
\* status is 'success' and 500 otherwise; with include_holdings true and all
\* four steps succeeding that is 200 with two locations, with a failed profile
\* fetch 500 with no location.  (With a setting missing the answer is 500.)
C11_HttpStatusFollowsOutcome ==
    (HttpEnded /\ WellFormed(input)) =>
        /\ outcome.kind = "return"
        /\ outcome.code \in {200, 500}
        /\ ~ConfigOk => outcome.code = 500
        /\ ConfigOk =>
            /\ outcome.value = "result"
            /\ result.symbol = input.symbol
            /\ outcome.code = 200 <=> result.status = "success"
            /\ (get_include_holdings(input.include_holdings)
                    /\ \A op \in Fetches \cup Writes : Succeeded(1, op))
                 => outcome.code = 200 /\ Len(result.files_created) = 2
            /\ (\E k \in CallsOf(1, {"get_etf_profile"}) : UpstreamFailed(calls[k].resp))
                 => outcome.code = 500 /\ result.files_created = <<>>

C11_Witness ==
    /\ HttpEnded
    /\ WellFormed(input)
    /\ outcome.code = 200
    /\ Len(result.files_created) = 2

C11_WitnessFailure ==
    /\ HttpEnded
    /\ WellFormed(input)
    /\ outcome.code = 500
    /\ Failed(1, "get_etf_profile")

\* C12 as stated: a request that is not a POST is answered 405, a POST whose
\* body is missing, not JSON, or has no (or an empty) symbol field is answered
\* 400, and in each case no fetch and no write is made.
C12_MalformedRejected ==
    (HttpEnded /\ ~WellFormed(input)) =>
        /\ outcome.kind = "return"
        /\ outcome.code = IF input.method # "POST" THEN 405 ELSE 400
        /\ calls = <<>>
        /\ bucket = {}

\* what holds of the code: the same, for bodies that are absent, not JSON or a
\* JSON object; no malformed request leads to a fetch or a write
C12_MalformedObjectRejected ==
    (HttpEnded /\ ~WellFormed(input)) =>
        /\ input.json # "array" =>
              outcome.code = IF input.method # "POST" THEN 405 ELSE 400
        /\ calls = <<>>
        /\ bucket = {}

\* ----------------------------------------------------------- configuration
ConfigErrors == {"ValueError: ALPHA_VANTAGE_API_KEY", "ValueError: GCS_BUCKET_NAME"}

ScheduledEnded == entry = "scheduled" /\ pc = "done"

\* the event carries a non-empty symbol list
HasSymbols(ev) == ev.has_data /\ get_symbols(ev) # <<>>

\* C13: with the API key or the bucket name absent or empty, neither entry
\* point ever starts an ingest, issues a fetch or writes an object, and a
\* scheduled event with a non-empty list ends with the constructor's error
\* raised to the caller, not with per-symbol outcomes.
C13_ConfigErrorBeforeWork ==
    ~ConfigOk =>
        /\ calls = <<>>
        /\ bucket = {}
        /\ results = <<>>
        /\ pc \in {"idle", "done"}
        /\ (ScheduledEnded /\ HasSymbols(input)) =>
              /\ outcome.kind = "raise"
              /\ outcome.error \in ConfigErrors

C13_Witness ==
    /\ ~ConfigOk
    /\ Truthy(env.ALPHA_VANTAGE_API_KEY)
    /\ ScheduledEnded
    /\ HasSymbols(input)

C13_WitnessHttp ==
    /\ ~ConfigOk
    /\ HttpEnded
    /\ WellFormed(input)

\* C14 as stated: with a setting missing, whatever request or event arrives
\* ends in the configuration error, never in a validation or ingestion result.
C14_ConfigErrorBeforeAnyAnswer ==
    (~ConfigOk /\ pc = "done") => outcome.error \in ConfigErrors

\* C14, amended: the settings are read when the handler constructs the
\* ingester, after it validated its input.  With a setting missing, a
\* well-formed request is answered 500 with the configuration error and an
\* event with a non-empty list raises it, before any fetch or write; a
\* malformed request is answered by the validation (405, 400, or the 500 of a
\* non-object body) and an event with an empty or absent list returns
\* normally, and for these the configuration error never surfaces.
C14_ConfigErrorAfterValidation ==
    (~ConfigOk /\ pc = "done") =>
        /\ calls = <<>>
        /\ HttpEnded =>
              /\ outcome.kind = "return"
              /\ WellFormed(input) =>
                    outcome.code = 500 /\ outcome.error \in ConfigErrors
              /\ ~WellFormed(input) =>
                    outcome.error \in {"method", "json", "symbol", "AttributeError"}
        /\ ScheduledEnded =>
              /\ HasSymbols(input) =>
                    outcome.kind = "raise" /\ outcome.error \in ConfigErrors
              /\ (input.has_data /\ get_symbols(input) = <<>>) =>
                    outcome.kind = "return" /\ outcome.error = None
              /\ ~input.has_data =>
                    outcome.kind = "raise" /\ outcome.error = "AttributeError"

C14_Witness ==
    /\ ~ConfigOk
    /\ HttpEnded
    /\ input.method = "POST"
    /\ outcome.code = 400

C14_WitnessEmptyList ==
    /\ ~ConfigOk
    /\ ScheduledEnded
    /\ input.has_data
    /\ outcome.kind = "return"

\* ------------------------------------------------------------ the upstream
\* the write that stores what the fetch op fetched
WriteOf(op) == IF op = "get_etf_profile" THEN "store_profile" ELSE "store_holdings"

\* the fetch at position k of the history was answered with a JSON object
JsonFetch(k) == calls[k].op \in Fetches /\ calls[k].resp.kind = "json"

\* C15: a fetch of either kind that was answered with a JSON object fails,
\* with the API error as the outcome's message, when the object has the key
\* 'Error Message' (with or without 'Note'); otherwise it succeeds, also with
\* 'Note' present, its payload is the object unchanged, and the next step of
\* the ingest is the write of that payload.
C15_BodyClassification ==
    \A k \in DOMAIN calls :
        JsonFetch(k) =>
            LET body == calls[k].resp.body
                i == calls[k].idx IN
            /\ "Error Message" \in body =>
                  /\ ~calls[k].ok
                  /\ k = Len(calls) \/ calls[k + 1].idx # i
                  /\ HasReturned(i) =>
                        /\ Returned(i).status = "error"
                        /\ Returned(i).error_message = "ValueError"
            /\ "Error Message" \notin body =>
                  /\ calls[k].ok
                  /\ k = Len(calls) =>
                        pc = IF calls[k].op = "get_etf_profile"
                             THEN "store_profile" ELSE "store_holdings"
                  /\ k = Len(calls) => data = body
                  /\ k < Len(calls) =>
                        /\ calls[k + 1].idx = i
                        /\ calls[k + 1].op = WriteOf(calls[k].op)
                        /\ calls[k + 1].ok =>
                              \E o \in bucket :
                                  o.blob = calls[k + 1].blob /\ o.data = body

C15_Witness ==
    \E k \in DOMAIN calls :
        /\ calls[k].op = "get_etf_holdings"
        /\ calls[k].resp.kind = "json"
        /\ calls[k].resp.body = {"net_assets", "Note"}
        /\ k < Len(calls)
        /\ calls[k + 1].ok

C15_WitnessError ==
    \E k \in DOMAIN calls :
        /\ calls[k].op = "get_etf_holdings"
        /\ calls[k].resp.kind = "json"
        /\ calls[k].resp.body = {"Error Message", "Note"}
        /\ pc = "done"

\* ------------------------------------------------------------- the storage
\* the positions of the successful writes in the history
OkWrites == {k \in DOMAIN calls : calls[k].op \in Writes /\ calls[k].ok}

\* C16 as stated: no two successful writes of a run target the same key, and
\* each leaves one more object in the bucket.
C16_NoKeyReuse ==
    /\ \A k, l \in OkWrites : k # l => calls[k].blob # calls[l].blob
    /\ Cardinality(bucket) = Cardinality(OkWrites)

\* C16, amended: two successful writes target the same key only when they
\* are writes of the same symbol and the same kind, made by different ingests
\* whose file-name timestamps were read in the same clock second (the first
\* clock read of each write, as recorded in the history); the later upload
\* then replaces the earlier object.  The two writes of one ingest never
\* target the same key, and the bucket holds exactly one object per distinct
\* key written.
C16_KeyReuseOnlySameSymbolKindSecond ==
    /\ \A k, l \in OkWrites :
          (k # l /\ calls[k].blob = calls[l].blob) =>
              /\ calls[k].symbol = calls[l].symbol
              /\ calls[k].op = calls[l].op
              /\ calls[k].idx # calls[l].idx
              /\ calls[k].reads[1] = calls[l].reads[1]
    /\ Cardinality(bucket) = Cardinality({calls[k].blob : k \in OkWrites})
    /\ \A k \in OkWrites : \E o \in bucket : o.blob = calls[k].blob

\* a batch listing a symbol twice: two of its writes fell in the same second
\* and the later replaced the earlier, two others of one symbol and kind fell
\* in different seconds and left two objects
C16_Witness ==
    /\ \E k, l \in OkWrites :
          /\ k < l
          /\ calls[k].blob = calls[l].blob
          /\ calls[k].reads[1] = calls[l].reads[1]
    /\ \E k, l \in OkWrites :
          /\ k < l
          /\ calls[k].symbol = calls[l].symbol
          /\ calls[k].op = calls[l].op
          /\ calls[k].reads[1] # calls[l].reads[1]
          /\ calls[k].blob # calls[l].blob
    /\ Cardinality(bucket) < Cardinality(OkWrites)

\* ---------------------------------------------------------------- outcomes
\* C17: once ingest_etf_data is entered the handler goes on to return its
\* result, whatever fetch or write fails: no exception leaves the ingest, the
\* returned outcome has its status set, and it carries an error_message
\* exactly when that status is 'error'.
C17_IngestAlwaysReturns ==
    /\ [](\A i \in Ingests :
            HasReturned(i) =>
                /\ Returned(i).status \in {"success", "error"}
                /\ Returned(i).error_message # None <=> Returned(i).status = "error")
    /\ []((outcome.kind = "raise" \/ outcome.value = "exception") => calls = <<>>)
    /\ (pc = "ingest_start") ~>
          (pc = "done" /\ outcome.kind = "return" /\ outcome.value = "result"
              /\ result.status \in {"success", "error"})

C17_Witness ==
    /\ pc = "done"
    /\ outcome.value = "result"
    /\ Failed(1, "store_holdings")
    /\ result.error_message = "StorageError"

\* C18: a returned outcome lists at most two locations, the profile's first
\* and the holdings' second, two different keys; its status is 'success'
\* exactly when it lists two locations with include_holdings true, one with
\* include_holdings false.
C18_FilesCreatedShape ==
    \A i \in Ingests :
        HasReturned(i) =>
            LET f == Returned(i).files_created IN
            /\ Len(f) <= 2
            /\ Len(f) >= 1 =>
                  f[1].blob.data_type = "profile" /\ f[1].blob.symbol = symbols[i]
            /\ Len(f) = 2 =>
                  /\ f[2].blob.data_type = "holdings"
                  /\ f[2].blob.symbol = symbols[i]
                  /\ f[1] # f[2]
            /\ Returned(i).status = "success"
                  <=> Len(f) = IF include_holdings THEN 2 ELSE 1

C18_Witness ==
    \E i \in Ingests :
        /\ HasReturned(i)
        /\ Len(Returned(i).files_created) = 2

C18_WitnessPartial ==
    \E i \in Ingests :
        /\ HasReturned(i)
        /\ include_holdings
        /\ Len(Returned(i).files_created) = 1

\* C19 as stated: the date partition of every object written is the date of
\* the timestamp in its file name and in its ingestion_timestamp metadata.
C19_DatePartitionMatchesTimestamp ==
    \A o \in bucket :
        /\ o.blob.date_path = o.blob.file.timestamp.date
        /\ o.blob.date_path = o.metadata.ingestion_timestamp.date

\* what holds of the code: file name and metadata carry the same timestamp,
\* and the date partition is that date or a later one
C19_DatePartitionNotEarlier ==
    \A o \in bucket :
        /\ o.blob.file.timestamp = o.metadata.ingestion_timestamp
        /\ o.blob.date_path >= o.blob.file.timestamp.date

====
